---- MODULE Spec2Model ----
(***************************************************************************)
(* The room server of src/index.ts: the rooms registry, the participants   *)
(* of each room, the socket.io groups the handlers broadcast to, and the   *)
(* messages the server sends to each connection.                           *)
(* The whiteboard gateway of src/src/whiteboard/whiteboard.gateway.ts: the *)
(* keyed object store, the event log, and the messages the gateway sends   *)
(* to each client. Each specification runs one of the two servers.         *)
(***************************************************************************)
EXTENDS Integers, Sequences, FiniteSets, TLC

\* ------------------------------------------------------------------ bounds

\* Events the server handles in one behaviour of the general specification.
MaxEvents == 3
\* Events the server handles in one behaviour of SpecRoom.
RoomEvents == 5
\* Events the server handles after the fill phase of SpecCap.
CapFree == 2
\* canvas_update events a client may have in flight (SpecNet).
MaxQueue == 1
\* Events the server handles in one behaviour of SpecNet.
NetEvents == 4
\* Events, connections included, the gateway handles in one behaviour of SpecBoard.
BoardEvents == 5
\* log calls in one behaviour of SpecLog.
LogCalls == 102
\* Events the server handles in one behaviour of SpecCursor.
CursorEvents == 5
\* Events the server handles in one behaviour of SpecLive.
LiveEvents == 3

\* ------------------------------------------------------- program constants

\* if (room.users.size >= 10)
MaxUsers == 10

\* const userColors = [...]
userColors ==
    << "#FF6B6B", "#4ECDC4", "#45B7D1", "#96CEB4",
       "#FFEAA7", "#DDA0DD", "#98D8E8", "#F7DC6F" >>

\* if (this.eventLogs.length > 100)
MaxLogEntries == 100

\* ------------------------------------------------------------ input domains

\* Socket ids. The transport hands them out; the model hands them out in order.
AllConns == 1..(MaxUsers + 1)
\* The connections of the general specification.
Conns == {1, 2, 3}

\* The ids generateRoomId can return.
RoomIds == {"R1", "R2"}
Names == {"ann", "bob"}
\* Values of a canvas_update's elements.
ElementLists == { <<"e1">>, <<"e2", "e1">> }
\* Values of a canvas_update's timestamp and of Date.now().
Times == {1, 2}
\* Values of a cursor_move's (x, y).
Points == { <<0, 0>>, <<3, 4>> }
\* cursor: null
NoCursor == << >>

VARIABLES
    conn,      \* conn[c]: "idle" (not yet connected), "open", "closed"
    rooms,     \* the rooms Map, as the sequence of its entries in insertion order
    groups,    \* groups[roomId]: the sockets that socket.join(roomId)-ed and are connected
    sent,      \* sent[c]: the messages the server sent to connection c, oldest first
    nEvents,   \* the number of events handled so far
    queue,     \* queue[c]: canvas_update events client c has sent, not yet handled
    view,      \* view[c]: the canvas client c shows
    read,      \* read[c]: how many messages of sent[c] client c has received
    objects,   \* the gateway's objects, as the sequence of its own entries in key order
    eventLogs, \* EventLogService.eventLogs, oldest first
    clock      \* the time new Date() returns, in milliseconds

vars == << conn, rooms, groups, sent, nEvents, queue, view, read,
           objects, eventLogs, clock >>
clientVars == << queue, view, read >>
boardVars == << objects, eventLogs, clock >>

\* ------------------------------------------------------- the Map operations

\* rooms.has(roomId)
HasRoom(rs, roomId) == \E i \in 1..Len(rs) : rs[i].id = roomId

\* rooms.get(roomId), for a roomId the Map has
GetRoom(rs, roomId) == rs[CHOOSE i \in 1..Len(rs) : rs[i].id = roomId]

\* The Map after a mutation of the room object it holds under room.id.
PutRoom(rs, room) == [i \in 1..Len(rs) |-> IF rs[i].id = room.id THEN room ELSE rs[i]]

\* rooms.delete(roomId)
DeleteRoom(rs, roomId) == SelectSeq(rs, LAMBDA r : r.id # roomId)

\* room.users.has(id)
HasUser(room, id) == \E i \in 1..Len(room.users) : room.users[i].id = id

\* room.users.get(id), for an id the Map has
GetUser(room, id) == room.users[CHOOSE i \in 1..Len(room.users) : room.users[i].id = id]

\* room.users.set(user.id, user): a key the Map holds keeps its place.
SetUser(room, user) ==
    [room EXCEPT !.users =
        IF HasUser(room, user.id)
        THEN [i \in 1..Len(@) |-> IF @[i].id = user.id THEN user ELSE @[i]]
        ELSE Append(@, user)]

\* room.users.delete(id)
DeleteUser(room, id) == [room EXCEPT !.users = SelectSeq(@, LAMBDA u : u.id # id)]

\* The keys of room.users.
UserIds(room) == { room.users[i].id : i \in 1..Len(room.users) }

\* ---------------------------------------------------------------- helpers

\* A choice of the last palette entry no user of the room holds.
lastAvailableColor(room) ==
    LET usedColors == { room.users[i].color : i \in 1..Len(room.users) }
        free == { k \in 1..Len(userColors) : userColors[k] \notin usedColors }
    IN  IF free = {} THEN userColors[1]
        ELSE userColors[CHOOSE k \in free : \A j \in free : k >= j]

\* A choice that falls back to the last palette entry.
fallbackLastColor(room) ==
    LET usedColors == { room.users[i].color : i \in 1..Len(room.users) }
        free == { k \in 1..Len(userColors) : userColors[k] \notin usedColors }
    IN  IF free = {} THEN userColors[Len(userColors)]
        ELSE userColors[CHOOSE k \in free : \A j \in free : k <= j]

\* getAvailableColor: the first palette entry no user of the room holds, else the first.
getAvailableColor(room) ==
    LET usedColors == { room.users[i].color : i \in 1..Len(room.users) }
        free == { k \in 1..Len(userColors) : userColors[k] \notin usedColors }
    IN  IF free = {} THEN userColors[1]
        ELSE userColors[CHOOSE k \in free : \A j \in free : k <= j]

\* A capacity check that lets one user too many in.
RoomIsOverFull(room) == Len(room.users) > MaxUsers

\* room.users.size >= 10
RoomIsFull(room) == Len(room.users) >= MaxUsers

\* A message: its event name, the room it is about (the payload's roomId, or
\* the group socket.to(roomId) addressed), and its payload.
Msg(type, roomId, data) == [type |-> type, room |-> roomId, data |-> data]

\* io.emit(...): to every socket.
ReplyAll(s, c, m) == [d \in DOMAIN s |-> Append(s[d], m)]

\* socket.emit(...): to the handler's own socket only.
Reply(s, c, m) == [s EXCEPT ![c] = Append(@, m)]

\* socket.broadcast: every connected socket, the sender excluded.
OthersEverywhere(c, members) == { d \in AllConns : conn[d] = "open" } \ {c}

\* socket.to(roomId): the sockets of the group, the sender excluded.
Others(c, members) == members \ {c}

\* socket.to(roomId).emit(...)
Broadcast(s, targets, m) ==
    [d \in DOMAIN s |-> IF d \in targets THEN Append(s[d], m) ELSE s[d]]

\* -------------------------------------------------------------------- Init

Init ==
    /\ conn = [c \in AllConns |-> "idle"]
    /\ rooms = << >>
    /\ groups = [r \in RoomIds |-> {}]
    /\ sent = [c \in AllConns |-> << >>]
    /\ nEvents = 0
    /\ queue = [c \in AllConns |-> << >>]
    /\ view = [c \in AllConns |-> << >>]
    /\ read = [c \in AllConns |-> 0]
    /\ objects = << >>
    /\ eventLogs = << >>
    /\ clock = 0

\* ----------------------------------------------------------------- handlers

\* io.on('connection'): the transport gives the socket a fresh id.
Connect(c) ==
    /\ conn[c] = "idle"
    /\ \A d \in AllConns : d < c => conn[d] # "idle"
    /\ conn' = [conn EXCEPT ![c] = "open"]
    /\ UNCHANGED << rooms, groups, sent, nEvents >>

\* socket.on('create_room'): roomId is what the generateRoomId loop ends with
\* (an id the registry does not hold), now is Date.now().
CreateRoom(c, username, roomId, now) ==
    /\ conn[c] = "open"
    /\ ~HasRoom(rooms, roomId)
    /\ LET room == [id |-> roomId, users |-> << >>, canvasState |-> << >>,
                    lastUpdate |-> now]
           user == [id |-> c, name |-> username, color |-> getAvailableColor(room),
                    cursor |-> NoCursor, isDrawing |-> FALSE]
       IN  /\ rooms' = Append(rooms, SetUser(room, user))
           /\ groups' = [groups EXCEPT ![roomId] = @ \cup {c}]
           /\ sent' = Reply(sent, c,
                  Msg("room_created", roomId, [roomId |-> roomId, user |-> user]))
    /\ nEvents' = nEvents + 1
    /\ UNCHANGED conn

\* socket.on('join_room')
JoinRoom(c, roomId, username) ==
    /\ conn[c] = "open"
    /\ nEvents' = nEvents + 1
    /\ UNCHANGED conn
    /\ IF ~HasRoom(rooms, roomId)
       THEN /\ sent' = Reply(sent, c,
                   Msg("room_error", roomId, [message |-> "Room not found"]))
            /\ UNCHANGED << rooms, groups >>
       ELSE LET room == GetRoom(rooms, roomId) IN
            IF RoomIsFull(room)
            THEN /\ sent' = Reply(sent, c,
                        Msg("room_error", roomId, [message |-> "Room is full"]))
                 /\ UNCHANGED << rooms, groups >>
            ELSE LET user == [id |-> c, name |-> username,
                              color |-> getAvailableColor(room),
                              cursor |-> NoCursor, isDrawing |-> FALSE]
                     joined == SetUser(room, user)
                     members == groups[roomId] \cup {c}
                 IN  /\ rooms' = PutRoom(rooms, joined)
                     /\ groups' = [groups EXCEPT ![roomId] = members]
                     /\ sent' = Broadcast(
                            Reply(sent, c,
                                Msg("room_joined", roomId,
                                    [roomId |-> roomId, user |-> user,
                                     users |-> joined.users,
                                     canvasState |-> joined.canvasState])),
                            Others(c, members),
                            Msg("user_joined", roomId, user))

\* A canvas_update that checks the timestamp against the stored one.
ApplyNewerUpdate(room, elements, timestamp) ==
    IF timestamp > room.lastUpdate
    THEN [room EXCEPT !.canvasState = elements, !.lastUpdate = timestamp]
    ELSE room

\* A canvas_update that adds the elements to the stored ones.
ApplyAppendedUpdate(room, elements, timestamp) ==
    [room EXCEPT !.canvasState = @ \o elements, !.lastUpdate = timestamp]

\* room.canvasState = data.elements; room.lastUpdate = data.timestamp
ApplyUpdate(room, elements, timestamp) ==
    [room EXCEPT !.canvasState = elements, !.lastUpdate = timestamp]

\* socket.on('canvas_update')
CanvasUpdate(c, roomId, elements, timestamp) ==
    /\ conn[c] = "open"
    /\ nEvents' = nEvents + 1
    /\ UNCHANGED << conn, groups >>
    /\ IF ~HasRoom(rooms, roomId)
       THEN UNCHANGED << rooms, sent >>
       ELSE /\ rooms' = PutRoom(rooms,
                   ApplyUpdate(GetRoom(rooms, roomId), elements, timestamp))
            /\ sent' = Broadcast(sent, Others(c, groups[roomId]),
                   Msg("canvas_updated", roomId,
                       [elements |-> elements, userId |-> c, timestamp |-> timestamp]))

\* socket.on('cursor_move')
CursorMove(c, roomId, point) ==
    /\ conn[c] = "open"
    /\ nEvents' = nEvents + 1
    /\ UNCHANGED << conn, groups >>
    /\ IF ~HasRoom(rooms, roomId) \/ ~HasUser(GetRoom(rooms, roomId), c)
       THEN UNCHANGED << rooms, sent >>
       ELSE LET room == GetRoom(rooms, roomId)
                user == [GetUser(room, c) EXCEPT !.cursor = point]
            IN  /\ rooms' = PutRoom(rooms, SetUser(room, user))
                /\ sent' = Broadcast(sent, Others(c, groups[roomId]),
                       Msg("cursor_updated", roomId,
                           [userId |-> c, cursor |-> user.cursor, color |-> user.color,
                            name |-> user.name, isDrawing |-> user.isDrawing]))

\* A handler that leaves the flag as it was.
KeepDrawing(user, flag) == user

\* user.isDrawing = true / user.isDrawing = false
WithDrawing(user, flag) == [user EXCEPT !.isDrawing = flag]

\* socket.on('drawing_start')
DrawingStart(c, roomId) ==
    /\ conn[c] = "open"
    /\ nEvents' = nEvents + 1
    /\ UNCHANGED << conn, groups >>
    /\ IF ~HasRoom(rooms, roomId) \/ ~HasUser(GetRoom(rooms, roomId), c)
       THEN UNCHANGED << rooms, sent >>
       ELSE LET room == GetRoom(rooms, roomId)
                user == WithDrawing(GetUser(room, c), TRUE)
            IN  /\ rooms' = PutRoom(rooms, SetUser(room, user))
                /\ sent' = Broadcast(sent, Others(c, groups[roomId]),
                       Msg("user_drawing_start", roomId,
                           [userId |-> c, color |-> user.color, name |-> user.name]))

\* socket.on('drawing_end')
DrawingEnd(c, roomId) ==
    /\ conn[c] = "open"
    /\ nEvents' = nEvents + 1
    /\ UNCHANGED << conn, groups >>
    /\ IF ~HasRoom(rooms, roomId) \/ ~HasUser(GetRoom(rooms, roomId), c)
       THEN UNCHANGED << rooms, sent >>
       ELSE LET room == GetRoom(rooms, roomId)
                user == WithDrawing(GetUser(room, c), FALSE)
            IN  /\ rooms' = PutRoom(rooms, SetUser(room, user))
                /\ sent' = Broadcast(sent, Others(c, groups[roomId]),
                       Msg("user_drawing_end", roomId, [userId |-> c]))

\* socket.on('request_sync')
RequestSync(c, roomId) ==
    /\ conn[c] = "open"
    /\ nEvents' = nEvents + 1
    /\ UNCHANGED << conn, rooms, groups >>
    /\ IF ~HasRoom(rooms, roomId)
       THEN UNCHANGED sent
       ELSE LET room == GetRoom(rooms, roomId) IN
            sent' = Reply(sent, c,
                Msg("sync_response", roomId,
                    [canvasState |-> room.canvasState, timestamp |-> room.lastUpdate,
                     users |-> room.users]))

\* The first room, in the Map's iteration order, whose users hold id: the room
\* the disconnect loop acts on before its break. 0 when there is none.
FirstRoomOf(rs, id) ==
    LET held == { i \in 1..Len(rs) : HasUser(rs[i], id) }
    IN  IF held = {} THEN 0 ELSE CHOOSE i \in held : \A j \in held : i <= j

\* A disconnect that keeps the room it has emptied.
KeepEmpty(rs, room) == PutRoom(rs, room)

\* if (room.users.size === 0) rooms.delete(roomId)
DropIfEmpty(rs, room) ==
    IF Len(room.users) = 0 THEN DeleteRoom(rs, room.id) ELSE PutRoom(rs, room)

\* socket.on('disconnect'): the socket has left every group when the handler runs.
Disconnect(c) ==
    /\ conn[c] = "open"
    /\ conn' = [conn EXCEPT ![c] = "closed"]
    /\ nEvents' = nEvents + 1
    /\ groups' = [r \in RoomIds |-> groups[r] \ {c}]
    /\ LET k == FirstRoomOf(rooms, c) IN
       IF k = 0
       THEN UNCHANGED << rooms, sent >>
       ELSE LET user == GetUser(rooms[k], c)
                room == DeleteUser(rooms[k], c)
            IN  /\ rooms' = DropIfEmpty(rooms, room)
                /\ sent' = IF Len(room.users) = 0
                           THEN sent
                           ELSE Broadcast(sent, Others(c, groups'[room.id]),
                                    Msg("user_left", room.id,
                                        [userId |-> c, name |-> user.name]))

\* ------------------------------------------- the general specification

\* Any of the connections sends any event, MaxEvents events in all.
Connection == \E c \in Conns : Connect(c) /\ UNCHANGED << clientVars, boardVars >>

create_room ==
    /\ nEvents < MaxEvents
    /\ \E c \in Conns, n \in Names, r \in RoomIds, t \in Times : CreateRoom(c, n, r, t)
    /\ UNCHANGED << clientVars, boardVars >>

join_room ==
    /\ nEvents < MaxEvents
    /\ \E c \in Conns, r \in RoomIds, n \in Names : JoinRoom(c, r, n)
    /\ UNCHANGED << clientVars, boardVars >>

canvas_update ==
    /\ nEvents < MaxEvents
    /\ \E c \in Conns, r \in RoomIds, e \in ElementLists, t \in Times :
            CanvasUpdate(c, r, e, t)
    /\ UNCHANGED << clientVars, boardVars >>

cursor_move ==
    /\ nEvents < MaxEvents
    /\ \E c \in Conns, r \in RoomIds, p \in Points : CursorMove(c, r, p)
    /\ UNCHANGED << clientVars, boardVars >>

drawing_start ==
    /\ nEvents < MaxEvents
    /\ \E c \in Conns, r \in RoomIds : DrawingStart(c, r)
    /\ UNCHANGED << clientVars, boardVars >>

drawing_end ==
    /\ nEvents < MaxEvents
    /\ \E c \in Conns, r \in RoomIds : DrawingEnd(c, r)
    /\ UNCHANGED << clientVars, boardVars >>

request_sync ==
    /\ nEvents < MaxEvents
    /\ \E c \in Conns, r \in RoomIds : RequestSync(c, r)
    /\ UNCHANGED << clientVars, boardVars >>

disconnect ==
    /\ nEvents < MaxEvents
    /\ \E c \in Conns : Disconnect(c)
    /\ UNCHANGED << clientVars, boardVars >>

Next ==
    \/ Connection
    \/ create_room
    \/ join_room
    \/ canvas_update
    \/ cursor_move
    \/ drawing_start
    \/ drawing_end
    \/ request_sync
    \/ disconnect

Spec == Init /\ [][Next]_vars

\* ------------------------------------------------ the rooms specification

\* The events that change membership or the canvas, with one name and one
\* timestamp, RoomEvents events in all: the longer behaviours of the general
\* specification's connections.
RoomConnection == \E c \in Conns : Connect(c) /\ UNCHANGED << clientVars, boardVars >>

RoomCreate ==
    /\ nEvents < RoomEvents
    /\ \E c \in Conns, r \in RoomIds : CreateRoom(c, "ann", r, 1)
    /\ UNCHANGED << clientVars, boardVars >>

RoomJoin ==
    /\ nEvents < RoomEvents
    /\ \E c \in Conns, r \in RoomIds : JoinRoom(c, r, "ann")
    /\ UNCHANGED << clientVars, boardVars >>

RoomUpdate ==
    /\ nEvents < RoomEvents
    /\ \E c \in Conns, r \in RoomIds : CanvasUpdate(c, r, <<"e1">>, 2)
    /\ UNCHANGED << clientVars, boardVars >>

RoomDisconnect ==
    /\ nEvents < RoomEvents
    /\ \E c \in Conns : Disconnect(c)
    /\ UNCHANGED << clientVars, boardVars >>

RoomNext ==
    \/ RoomConnection
    \/ RoomCreate
    \/ RoomJoin
    \/ RoomUpdate
    \/ RoomDisconnect

SpecRoom == Init /\ [][RoomNext]_vars

\* ----------------------------------------------- the cursor specification

\* Membership events and cursor_move, with one name and one timestamp,
\* CursorEvents events in all.
CursorConnection == \E c \in Conns : Connect(c) /\ UNCHANGED << clientVars, boardVars >>

CursorCreate ==
    /\ nEvents < CursorEvents
    /\ \E c \in Conns, r \in RoomIds : CreateRoom(c, "ann", r, 1)
    /\ UNCHANGED << clientVars, boardVars >>

CursorJoin ==
    /\ nEvents < CursorEvents
    /\ \E c \in Conns, r \in RoomIds : JoinRoom(c, r, "ann")
    /\ UNCHANGED << clientVars, boardVars >>

CursorMoved ==
    /\ nEvents < CursorEvents
    /\ \E c \in Conns, r \in RoomIds, point \in Points : CursorMove(c, r, point)
    /\ UNCHANGED << clientVars, boardVars >>

CursorDisconnect ==
    /\ nEvents < CursorEvents
    /\ \E c \in Conns : Disconnect(c)
    /\ UNCHANGED << clientVars, boardVars >>

CursorNext ==
    \/ CursorConnection
    \/ CursorCreate
    \/ CursorJoin
    \/ CursorMoved
    \/ CursorDisconnect

SpecCursor == Init /\ [][CursorNext]_vars

\* ------------------------------------------------- the live specification

\* Every event of the room server, each with one payload: one name, one
\* element list, one timestamp and one position.
LiveConnection == \E c \in Conns : Connect(c) /\ UNCHANGED << clientVars, boardVars >>

LiveCreate ==
    /\ nEvents < LiveEvents
    /\ \E c \in Conns, r \in RoomIds : CreateRoom(c, "ann", r, 1)
    /\ UNCHANGED << clientVars, boardVars >>

LiveJoin ==
    /\ nEvents < LiveEvents
    /\ \E c \in Conns, r \in RoomIds : JoinRoom(c, r, "bob")
    /\ UNCHANGED << clientVars, boardVars >>

LiveUpdate ==
    /\ nEvents < LiveEvents
    /\ \E c \in Conns, r \in RoomIds : CanvasUpdate(c, r, <<"e1">>, 2)
    /\ UNCHANGED << clientVars, boardVars >>

LiveCursor ==
    /\ nEvents < LiveEvents
    /\ \E c \in Conns, r \in RoomIds : CursorMove(c, r, <<3, 4>>)
    /\ UNCHANGED << clientVars, boardVars >>

LiveStart ==
    /\ nEvents < LiveEvents
    /\ \E c \in Conns, r \in RoomIds : DrawingStart(c, r)
    /\ UNCHANGED << clientVars, boardVars >>

LiveEnd ==
    /\ nEvents < LiveEvents
    /\ \E c \in Conns, r \in RoomIds : DrawingEnd(c, r)
    /\ UNCHANGED << clientVars, boardVars >>

LiveSync ==
    /\ nEvents < LiveEvents
    /\ \E c \in Conns, r \in RoomIds : RequestSync(c, r)
    /\ UNCHANGED << clientVars, boardVars >>

LiveDisconnect ==
    /\ nEvents < LiveEvents
    /\ \E c \in Conns : Disconnect(c)
    /\ UNCHANGED << clientVars, boardVars >>

LiveNext ==
    \/ LiveConnection
    \/ LiveCreate
    \/ LiveJoin
    \/ LiveUpdate
    \/ LiveCursor
    \/ LiveStart
    \/ LiveEnd
    \/ LiveSync
    \/ LiveDisconnect

SpecLive == Init /\ [][LiveNext]_vars

\* --------------------------------------------- the capacity specification

\* The fill phase: connection 1 creates room R1 and connections 2, 3, ... join
\* it in turn, until FillEvents events are handled. Then any of the
\* MaxUsers + 1 connections creates, joins or disconnects, CapFree events in all.
FillEvents == MaxUsers - 1

\* The open connections that are a user of no room.
Unjoined == { c \in AllConns : conn[c] = "open" /\ FirstRoomOf(rooms, c) = 0 }

CapConnection ==
    /\ nEvents < FillEvents => Unjoined = {}
    /\ \E c \in AllConns : Connect(c)
    /\ UNCHANGED << clientVars, boardVars >>

CapFill ==
    /\ nEvents < FillEvents
    /\ \E c \in Unjoined :
            IF rooms = << >> THEN CreateRoom(c, "ann", "R1", 1)
                             ELSE JoinRoom(c, "R1", "ann")
    /\ UNCHANGED << clientVars, boardVars >>

CapCreate ==
    /\ FillEvents <= nEvents /\ nEvents < FillEvents + CapFree
    /\ \E c \in AllConns, r \in RoomIds : CreateRoom(c, "bob", r, 2)
    /\ UNCHANGED << clientVars, boardVars >>

CapJoin ==
    /\ FillEvents <= nEvents /\ nEvents < FillEvents + CapFree
    /\ \E c \in AllConns, r \in RoomIds : JoinRoom(c, r, "bob")
    /\ UNCHANGED << clientVars, boardVars >>

CapDisconnect ==
    /\ FillEvents <= nEvents /\ nEvents < FillEvents + CapFree
    /\ \E c \in AllConns : Disconnect(c)
    /\ UNCHANGED << clientVars, boardVars >>

CapNext ==
    \/ CapConnection
    \/ CapFill
    \/ CapCreate
    \/ CapJoin
    \/ CapDisconnect

SpecCap == Init /\ [][CapNext]_vars

\* ---------------------------------------------- the network specification

\* Two clients and the server, with the transport between them: a client's
\* canvas_update waits in queue[c] until the server handles it, and a message
\* the server sent waits in sent[c] until the client receives it. Each client
\* is in one room at most.
NetConns == {1, 2}

\* The room a client knows it is in: that of the room_created or room_joined
\* it has received.
KnownRooms(c) ==
    { sent[c][i].room : i \in { j \in 1..read[c] :
                                  sent[c][j].type \in {"room_created", "room_joined"} } }

NetConnection == \E c \in NetConns : Connect(c) /\ UNCHANGED << clientVars, boardVars >>

NetCreate ==
    /\ nEvents < NetEvents
    /\ \E c \in NetConns :
            /\ FirstRoomOf(rooms, c) = 0
            /\ CreateRoom(c, "ann", "R1", 1)
    /\ UNCHANGED << clientVars, boardVars >>

NetJoin ==
    /\ nEvents < NetEvents
    /\ \E c \in NetConns :
            /\ FirstRoomOf(rooms, c) = 0
            /\ HasRoom(rooms, "R1")
            /\ JoinRoom(c, "R1", "bob")
    /\ UNCHANGED << clientVars, boardVars >>

\* The client edits its canvas and sends the whole of it.
ClientEdit(c, roomId, elements, timestamp) ==
    /\ conn[c] = "open"
    /\ roomId \in KnownRooms(c)
    /\ Len(queue[c]) < MaxQueue
    /\ view' = [view EXCEPT ![c] = elements]
    /\ queue' = [queue EXCEPT ![c] =
            Append(@, [roomId |-> roomId, elements |-> elements,
                       timestamp |-> timestamp])]
    /\ UNCHANGED << read, conn, rooms, groups, sent, nEvents >>
    /\ UNCHANGED boardVars

\* The view after the client receives message m.
Received(v, m) ==
    IF m.type = "canvas_updated" THEN m.data.elements
    ELSE IF m.type = "room_joined" THEN m.data.canvasState
    ELSE v

\* The client receives the next message the server sent it.
ClientReceive(c) ==
    /\ read[c] < Len(sent[c])
    /\ read' = [read EXCEPT ![c] = @ + 1]
    /\ view' = [view EXCEPT ![c] = Received(@, sent[c][read[c] + 1])]
    /\ UNCHANGED << queue, conn, rooms, groups, sent, nEvents >>
    /\ UNCHANGED boardVars

\* The server handles the oldest canvas_update a client has in flight.
ServerHandle(c) ==
    /\ queue[c] # << >>
    /\ LET data == Head(queue[c])
       IN  CanvasUpdate(c, data.roomId, data.elements, data.timestamp)
    /\ queue' = [queue EXCEPT ![c] = Tail(@)]
    /\ UNCHANGED << view, read >>
    /\ UNCHANGED boardVars

NetEdit == \E c \in NetConns, r \in RoomIds, e \in ElementLists, t \in Times :
                ClientEdit(c, r, e, t)

NetReceive == \E c \in NetConns : ClientReceive(c)

NetHandle == nEvents < NetEvents /\ \E c \in NetConns : ServerHandle(c)

NetNext ==
    \/ NetConnection
    \/ NetCreate
    \/ NetJoin
    \/ NetEdit
    \/ NetReceive
    \/ NetHandle

SpecNet == Init /\ [][NetNext]_vars

\* ------------------------------------------------ the whiteboard gateway

\* The clients of the gateway.
BoardConns == {1, 2, 3}
\* Ids of whiteboard objects: an ordinary id, and the name of a property that
\* the store, an object literal, inherits from Object.prototype.
ObjIds == {"r1", "toString"}
InheritedKeys == {"toString"}
\* Payloads of object:added, object:modified and object:removed.
AddPayloads ==
    { [id |-> "r1", props |-> [shape |-> "rect"]],
      [id |-> "r1", props |-> [shape |-> "rect"], kind |-> "note"],
      [id |-> "toString", props |-> [shape |-> "rect"]] }
ModifyPayloads ==
    { [id |-> "r1", props |-> [color |-> "red"]],
      [id |-> "r1", props |-> [shape |-> "circle"]],
      [id |-> "r1", props |-> [color |-> "red"], kind |-> "pin"],
      [id |-> "toString", props |-> [color |-> "red"]] }
RemovePayloads == { [id |-> i, props |-> << >>] : i \in ObjIds }
\* The namespace the gateway serves; canvas:clear is emitted with no payload.
Board == "/"
NoPayload == << >>

\* Object.prototype.hasOwnProperty.call(this.objects, key)
HasOwn(os, key) == \E i \in 1..Len(os) : os[i].key = key

\* The own entry of the store under key.
OwnValue(os, key) == os[CHOOSE i \in 1..Len(os) : os[i].key = key].value

\* if (this.objects[data.id]): an own entry is an object, an inherited
\* property of the object literal is a function; both are truthy.
Truthy(os, key) == HasOwn(os, key) \/ key \in InheritedKeys

\* {...this.objects[data.id]}: the own enumerable properties of the value
\* found; an inherited function has none.
Spread(os, key) == IF HasOwn(os, key) THEN OwnValue(os, key) ELSE << >>

\* this.objects[data.id].props, spread: undefined spreads to nothing.
PropsOf(value) == IF "props" \in DOMAIN value THEN value.props ELSE << >>

\* {...a, ...b}
Merge(a, b) ==
    [k \in DOMAIN a \cup DOMAIN b |-> IF k \in DOMAIN b THEN b[k] ELSE a[k]]

\* this.objects[key] = value: an own key keeps its place, a new one goes last.
SetObject(os, key, value) ==
    IF HasOwn(os, key)
    THEN [i \in 1..Len(os) |-> IF os[i].key = key
                                THEN [key |-> key, value |-> value] ELSE os[i]]
    ELSE Append(os, [key |-> key, value |-> value])

\* delete this.objects[key]
DeleteObject(os, key) == SelectSeq(os, LAMBDA e : e.key # key)

\* Object.values(this.objects)
Values(os) == [i \in 1..Len(os) |-> os[i].value]

\* A broadcast that also reaches the sender.
AllClients(c) == { d \in AllConns : conn[d] = "open" }

\* client.broadcast: every connected socket but the sender.
OtherClients(c) == { d \in AllConns : conn[d] = "open" } \ {c}

\* The format 'YYYY-MM-DD HH:mm:ss' keeps the time to the second.
dateToUser(date) == date \div 1000

\* A log that is never capped.
logUncapped(logs, now, eventName, payload) ==
    Append(logs, [event |-> eventName, timestamp |-> dateToUser(now),
                  payload |-> payload])

\* EventLogService.log: push, then shift once the length exceeds the cap.
log(logs, now, eventName, payload) ==
    LET newLog == [event |-> eventName, timestamp |-> dateToUser(now),
                   payload |-> payload]
        pushed == Append(logs, newLog)
    IN  IF Len(pushed) > MaxLogEntries THEN Tail(pushed) ELSE pushed

\* handleConnection
handleConnection(c) ==
    /\ conn[c] = "idle"
    /\ \A d \in AllConns : d < c => conn[d] # "idle"
    /\ conn' = [conn EXCEPT ![c] = "open"]
    /\ nEvents' = nEvents + 1
    /\ eventLogs' = log(log(eventLogs, clock, "client:connected", [clientId |-> c]),
                        clock, "client:syncing", [objects |-> Values(objects)])
    /\ clock' = clock + 400
    /\ sent' = Reply(sent, c, Msg("object:sync", Board, [objects |-> Values(objects)]))
    /\ UNCHANGED objects

\* handleDisconnect
handleDisconnect(c) ==
    /\ conn[c] = "open"
    /\ conn' = [conn EXCEPT ![c] = "closed"]
    /\ nEvents' = nEvents + 1
    /\ eventLogs' = log(eventLogs, clock, "client:disconnected", [clientId |-> c])
    /\ clock' = clock + 400
    /\ UNCHANGED << objects, sent >>

\* handleObjectAdded
handleObjectAdded(c, data) ==
    /\ conn[c] = "open"
    /\ nEvents' = nEvents + 1
    /\ eventLogs' = log(eventLogs, clock, "object:added", data)
    /\ clock' = clock + 400
    /\ objects' = SetObject(objects, data.id, data)
    /\ sent' = Broadcast(sent, OtherClients(c), Msg("object:added", Board, data))
    /\ UNCHANGED conn

\* handleObjectModified
handleObjectModified(c, data) ==
    /\ conn[c] = "open"
    /\ nEvents' = nEvents + 1
    /\ eventLogs' = log(eventLogs, clock, "object:modified", data)
    /\ clock' = clock + 400
    /\ IF Truthy(objects, data.id)
       THEN /\ objects' = SetObject(objects, data.id,
                              Merge(Spread(objects, data.id),
                                    [props |-> Merge(PropsOf(Spread(objects, data.id)),
                                                     data.props)]))
            /\ sent' = Broadcast(sent, OtherClients(c),
                                 Msg("object:modified", Board, data))
       ELSE UNCHANGED << objects, sent >>
    /\ UNCHANGED conn

\* handleObjectRemoved
handleObjectRemoved(c, data) ==
    /\ conn[c] = "open"
    /\ nEvents' = nEvents + 1
    /\ eventLogs' = log(eventLogs, clock, "object:removed", data)
    /\ clock' = clock + 400
    /\ objects' = DeleteObject(objects, data.id)
    /\ sent' = Broadcast(sent, OtherClients(c), Msg("object:removed", Board, data))
    /\ UNCHANGED conn

\* handleCanvasClear
handleCanvasClear(c) ==
    /\ conn[c] = "open"
    /\ nEvents' = nEvents + 1
    /\ eventLogs' = log(eventLogs, clock, "canvas:clear", << >>)
    /\ clock' = clock + 400
    /\ objects' = << >>
    /\ sent' = Broadcast(sent, OtherClients(c), Msg("canvas:clear", Board, NoPayload))
    /\ UNCHANGED conn

\* ------------------------------------------------ the board specification

\* The gateway and its clients; no room server runs.
roomVars == << rooms, groups, clientVars >>

BoardConnection ==
    nEvents < BoardEvents /\ \E c \in BoardConns : handleConnection(c) /\ UNCHANGED roomVars

BoardDisconnect ==
    nEvents < BoardEvents /\ \E c \in BoardConns : handleDisconnect(c) /\ UNCHANGED roomVars

object_added ==
    /\ nEvents < BoardEvents
    /\ \E c \in BoardConns, data \in AddPayloads : handleObjectAdded(c, data)
    /\ UNCHANGED roomVars

object_modified ==
    /\ nEvents < BoardEvents
    /\ \E c \in BoardConns, data \in ModifyPayloads : handleObjectModified(c, data)
    /\ UNCHANGED roomVars

object_removed ==
    /\ nEvents < BoardEvents
    /\ \E c \in BoardConns, data \in RemovePayloads : handleObjectRemoved(c, data)
    /\ UNCHANGED roomVars

canvas_clear ==
    /\ nEvents < BoardEvents
    /\ \E c \in BoardConns : handleCanvasClear(c)
    /\ UNCHANGED roomVars

BoardNext ==
    \/ BoardConnection
    \/ BoardDisconnect
    \/ object_added
    \/ object_modified
    \/ object_removed
    \/ canvas_clear

SpecBoard == Init /\ [][BoardNext]_vars

\* -------------------------------------------------- the log specification

\* The event log alone: the k-th call logs the payload [n |-> k].
LogEvent ==
    /\ nEvents < LogCalls
    /\ nEvents' = nEvents + 1
    /\ eventLogs' = log(eventLogs, clock, "object:added", [n |-> nEvents + 1])
    /\ clock' = clock + 400
    /\ UNCHANGED << conn, sent, objects, roomVars >>

LogNext == LogEvent

SpecLog == Init /\ [][LogNext]_vars

\* ------------------------------------------------------------------ claims

\* The messages of type t, about room r, among the first n sent to c.
Got(c, n, t, r) == { i \in 1..n : sent[c][i].type = t /\ sent[c][i].room = r }

\* The last message sent to c.
Last(s, c) == s[c][Len(s[c])]

\* C1: every room of the registry has at least one participant, in every
\* reachable state: a disconnect that empties a room removes it in the same step.
C1_NoEmptyRoom == \A i \in 1..Len(rooms) : Len(rooms[i].users) >= 1

\* C1's case: the creator of a room has disconnected and the room is gone.
C1_Witness ==
    \E c \in Conns, r \in RoomIds :
        /\ conn[c] = "closed"
        /\ Got(c, Len(sent[c]), "room_created", r) # {}
        /\ ~HasRoom(rooms, r)

\* C2: no room ever holds more than 10 participants, and a join_room aimed at
\* a room that holds 10 replies room_error 'Room is full' to the requester
\* only, adds nobody and leaves the registry and the groups as they were.
C2_Capacity ==
    /\ [](\A i \in 1..Len(rooms) : Len(rooms[i].users) <= MaxUsers)
    /\ [][\A c \in AllConns, r \in RoomIds, n \in Names :
            ( /\ JoinRoom(c, r, n)
              /\ HasRoom(rooms, r)
              /\ Len(GetRoom(rooms, r).users) >= MaxUsers )
            => /\ rooms' = rooms
               /\ groups' = groups
               /\ sent' = [sent EXCEPT ![c] =
                      Append(@, Msg("room_error", r, [message |-> "Room is full"]))]
         ]_vars

\* C2's case: a room holds 10 participants and a connection that is not one
\* of them has just been refused.
C2_Witness ==
    \E c \in AllConns, r \in RoomIds :
        /\ HasRoom(rooms, r)
        /\ Len(GetRoom(rooms, r).users) = MaxUsers
        /\ ~HasUser(GetRoom(rooms, r), c)
        /\ sent[c] # << >>
        /\ Last(sent, c) = Msg("room_error", r, [message |-> "Room is full"])

\* C3: a join_room naming a room the registry does not hold replies
\* room_error 'Room not found' to the requester only: the registry and the
\* groups stay as they were and no other connection is sent anything.
C3_JoinMissing ==
    [][\A c \in Conns, r \in RoomIds, n \in Names :
            (JoinRoom(c, r, n) /\ ~HasRoom(rooms, r))
            => /\ rooms' = rooms
               /\ groups' = groups
               /\ sent'[c] = Append(sent[c],
                      Msg("room_error", r, [message |-> "Room not found"]))
               /\ \A d \in AllConns \ {c} : sent'[d] = sent[d]
      ]_vars

\* C3's case: a room was created, its sole participant has disconnected, the
\* room is gone and another connection asking to join it got 'Room not found'.
C3_Witness ==
    \E c \in Conns, d \in Conns, r \in RoomIds :
        /\ c # d
        /\ conn[d] = "closed"
        /\ Got(d, Len(sent[d]), "room_created", r) # {}
        /\ ~HasRoom(rooms, r)
        /\ sent[c] # << >>
        /\ Last(sent, c) = Msg("room_error", r, [message |-> "Room not found"])

\* The live updates of a room.
LiveTypes == {"canvas_updated", "cursor_updated", "user_joined", "user_left"}

\* C4, as claimed: in the messages sent to a connection, a room_joined for the
\* room precedes every canvas_updated, cursor_updated, user_joined and
\* user_left of that room.
C4_JoinedFirst ==
    \A c \in AllConns : \A i \in 1..Len(sent[c]) :
        sent[c][i].type \in LiveTypes
        => Got(c, i - 1, "room_joined", sent[c][i].room) # {}

\* C4, amended: in the messages sent to a connection, a room_joined or, for
\* the connection that created the room, a room_created for the room precedes
\* every canvas_updated, cursor_updated, user_joined and user_left of that room.
C4_JoinedOrCreatedFirst ==
    \A c \in AllConns : \A i \in 1..Len(sent[c]) :
        sent[c][i].type \in LiveTypes
        => \/ Got(c, i - 1, "room_joined", sent[c][i].room) # {}
           \/ Got(c, i - 1, "room_created", sent[c][i].room) # {}

\* C4's case: a connection that joined a room has received the room's
\* snapshot and, after it, a canvas_updated of that room.
C4_Witness ==
    \E c \in Conns : \E i \in 1..Len(sent[c]) :
        /\ sent[c][i].type = "canvas_updated"
        /\ Got(c, i - 1, "room_joined", sent[c][i].room) # {}

\* The users of a room whose connection is open.
Connected(room) == { c \in UserIds(room) : conn[c] = "open" }

\* What a successful join_room of c to room r sends, with the participants
\* of the room who are to receive user_joined given as recipients(room).
JoinSends(c, r, recipients(_)) ==
    LET room == GetRoom(rooms, r)
        m == Last(sent', c)
    IN  /\ sent'[c] = Append(sent[c], m)
        /\ m.type = "room_joined" /\ m.room = r
        /\ m.data.canvasState = room.canvasState
        /\ m.data.users = GetRoom(rooms', r).users
        /\ { m.data.users[i].id : i \in 1..Len(m.data.users) } = UserIds(room) \cup {c}
        /\ \A d \in AllConns \ {c} :
              sent'[d] = IF d \in recipients(room)
                         THEN Append(sent[d], Msg("user_joined", r, m.data.user))
                         ELSE sent[d]

\* C5, as claimed: a successful join_room sends the requester one room_joined
\* with the room's stored canvasState and its participants, the joiner
\* included, sends every other participant of the room one user_joined, and
\* sends the joiner no user_joined.
C5_JoinSnapshot ==
    [][\A c \in Conns, r \in RoomIds, n \in Names :
            ( /\ JoinRoom(c, r, n)
              /\ HasRoom(rooms, r)
              /\ ~RoomIsFull(GetRoom(rooms, r)) )
            => JoinSends(c, r, UserIds)
      ]_vars

\* C5 for the participants whose connection is open: what holds of the code.
C5_AmongConnected ==
    [][\A c \in Conns, r \in RoomIds, n \in Names :
            ( /\ JoinRoom(c, r, n)
              /\ HasRoom(rooms, r)
              /\ ~RoomIsFull(GetRoom(rooms, r)) )
            => JoinSends(c, r, Connected)
      ]_vars

\* What a canvas_update of c for room r sends, with the participants of the
\* room who are to receive canvas_updated given as recipients(room).
UpdateSends(c, r, e, t, recipients(_)) ==
    \A d \in AllConns :
        sent'[d] = IF d \in recipients(GetRoom(rooms, r)) \ {c}
                   THEN Append(sent[d],
                            Msg("canvas_updated", r,
                                [elements |-> e, userId |-> c, timestamp |-> t]))
                   ELSE sent[d]

\* C6, as claimed: a canvas_update from a participant of the room is sent, with
\* the elements, the timestamp and the sender's id, to every other participant
\* of the room and to nobody else, the sender included.
C6_OthersOnly ==
    [][\A c \in Conns, r \in RoomIds, e \in ElementLists, t \in Times :
            ( /\ CanvasUpdate(c, r, e, t)
              /\ HasRoom(rooms, r)
              /\ HasUser(GetRoom(rooms, r), c) )
            => UpdateSends(c, r, e, t, UserIds)
      ]_vars

\* C6 for the participants whose connection is open: what holds of the code.
C6_AmongConnected ==
    [][\A c \in Conns, r \in RoomIds, e \in ElementLists, t \in Times :
            ( /\ CanvasUpdate(c, r, e, t)
              /\ HasRoom(rooms, r)
              /\ HasUser(GetRoom(rooms, r), c) )
            => UpdateSends(c, r, e, t, Connected)
      ]_vars

\* Nothing is in flight: every canvas_update is handled, every message received.
Quiet ==
    \A c \in NetConns : queue[c] = << >> /\ read[c] = Len(sent[c])

\* C7, as claimed: once the canvas_update events of the participants of a room
\* are handled and every broadcast is received, the room's canvasState and the
\* view of every participant are the same (the elements handled last).
C7_Converged ==
    Quiet =>
        \A i \in 1..Len(rooms) : \A c \in Connected(rooms[i]) :
            view[c] = rooms[i].canvasState

\* C8: a canvas_update for a room the registry holds sets the room's
\* canvasState to the payload's elements and its lastUpdate to the payload's
\* timestamp, whatever the stored lastUpdate: also when the timestamp is older.
C8_Unconditional ==
    [][\A c \in Conns, r \in RoomIds, e \in ElementLists, t \in Times :
            (CanvasUpdate(c, r, e, t) /\ HasRoom(rooms, r))
            => /\ HasRoom(rooms', r)
               /\ GetRoom(rooms', r).canvasState = e
               /\ GetRoom(rooms', r).lastUpdate = t
      ]_vars

\* C8's case: the creator of a room, still in it, was told by sync_response that
\* lastUpdate was 2, and a canvas_update has since set lastUpdate to 1.
C8_Witness ==
    \E c \in Conns, r \in RoomIds :
        /\ conn[c] = "open"
        /\ HasRoom(rooms, r)
        /\ HasUser(GetRoom(rooms, r), c)
        /\ GetRoom(rooms, r).lastUpdate = 1
        /\ GetRoom(rooms, r).canvasState # << >>
        /\ \E j \in Got(c, Len(sent[c]), "sync_response", r) :
              /\ sent[c][j].data.timestamp = 2
              /\ Got(c, j - 1, "room_created", r) # {}

\* C9, as claimed: a connection is a user of at most one room at any time.
C9_OneRoom ==
    \A c \in AllConns :
        Cardinality({ i \in 1..Len(rooms) : HasUser(rooms[i], c) }) <= 1

\* C10, as claimed: no user of any room belongs to a connection whose
\* disconnect has been handled.
C10_NoneClosed ==
    \A i \in 1..Len(rooms) : \A c \in UserIds(rooms[i]) : conn[c] # "closed"

\* C11: a canvas_update naming an existing room, sent by a connection that is
\* not a participant of it, changes neither the room's canvasState nor its
\* lastUpdate and delivers no canvas_updated to any participant of the room.
C11_StrangerIgnored ==
    [][\A c \in Conns, r \in RoomIds, e \in ElementLists, t \in Times :
          (/\ HasRoom(rooms, r)
           /\ ~HasUser(GetRoom(rooms, r), c)
           /\ CanvasUpdate(c, r, e, t))
          => /\ GetRoom(rooms', r).canvasState = GetRoom(rooms, r).canvasState
             /\ GetRoom(rooms', r).lastUpdate = GetRoom(rooms, r).lastUpdate
             /\ \A d \in UserIds(GetRoom(rooms, r)) : sent'[d] = sent[d]]_vars

\* C12: object:modified for an id that is not in the store leaves the store
\* unchanged and broadcasts nothing to any client.
C12_AbsentModifyNoOp ==
    [][\A c \in BoardConns, data \in ModifyPayloads :
          (~HasOwn(objects, data.id) /\ handleObjectModified(c, data))
          => (objects' = objects /\ sent' = sent)]_vars

\* The same for the ids that name no inherited property of the store.
C12_OrdinaryIdNoOp ==
    [][\A c \in BoardConns, data \in ModifyPayloads :
          (/\ ~HasOwn(objects, data.id)
           /\ data.id \notin InheritedKeys
           /\ handleObjectModified(c, data))
          => (objects' = objects /\ sent' = sent)]_vars

\* The store as a mapping from its keys to the objects under them.
StoreMap(os) == [k \in { os[i].key : i \in 1..Len(os) } |-> OwnValue(os, k)]

\* Shallow merge: new keys added, existing keys overwritten, others preserved.
RefMerge(stored, patch) ==
    [k \in DOMAIN stored \cup DOMAIN patch |->
        IF k \in DOMAIN patch THEN patch[k] ELSE stored[k]]

\* The reference semantics of one logged event on a mapping m.
RefApply(m, entry) ==
    LET data == entry.payload IN
    CASE entry.event = "object:added" ->
            [k \in DOMAIN m \cup {data.id} |-> IF k = data.id THEN data ELSE m[k]]
      [] entry.event = "object:modified" ->
            IF data.id \in DOMAIN m
            THEN [m EXCEPT ![data.id].props = RefMerge(@, data.props)]
            ELSE m
      [] entry.event = "object:removed" ->
            [k \in DOMAIN m \ {data.id} |-> m[k]]
      [] entry.event = "canvas:clear" -> << >>
      [] OTHER -> m

\* The events of a log replayed in receipt order on the empty mapping.
RECURSIVE Replay(_)
Replay(logs) ==
    IF Len(logs) = 0 THEN << >>
    ELSE RefApply(Replay(SubSeq(logs, 1, Len(logs) - 1)), logs[Len(logs)])

\* The store events received so far are object:added, object:modified and
\* object:removed only.
KeyedEventsOnly == \A i \in 1..Len(eventLogs) : eventLogs[i].event # "canvas:clear"

\* C13: after any sequence of object:added, object:modified and
\* object:removed events the store equals the replay of the events, in
\* receipt order, on an empty mapping with the reference semantics.
C13_Replay == KeyedEventsOnly => StoreMap(objects) = Replay(eventLogs)

\* The same when no object:modified names an inherited property of the store.
C13_ReplayOrdinaryIds ==
    (/\ KeyedEventsOnly
     /\ \A i \in 1..Len(eventLogs) :
           eventLogs[i].event = "object:modified"
           => eventLogs[i].payload.id \notin InheritedKeys)
    => StoreMap(objects) = Replay(eventLogs)

\* The messages a step of the gateway appends to what connection d was sent.
NewFor(d) == SubSeq(sent'[d], Len(sent[d]) + 1, Len(sent'[d]))

\* Message m goes, once, to every connected client but c, and nothing goes to
\* anyone else.
OthersOnly(c, m) ==
    \A d \in AllConns :
        NewFor(d) = IF conn[d] = "open" /\ d # c THEN << m >> ELSE << >>

\* C14: an object:added, an object:modified on a present id, an
\* object:removed and a canvas:clear sent by a connected client are delivered
\* with exactly the sent payload to every other connected client and never
\* to the sender.
C14_OthersOnlyVerbatim ==
    [][/\ \A c \in BoardConns, data \in AddPayloads :
            handleObjectAdded(c, data)
            => OthersOnly(c, Msg("object:added", Board, data))
       /\ \A c \in BoardConns, data \in ModifyPayloads :
            (HasOwn(objects, data.id) /\ handleObjectModified(c, data))
            => OthersOnly(c, Msg("object:modified", Board, data))
       /\ \A c \in BoardConns, data \in RemovePayloads :
            handleObjectRemoved(c, data)
            => OthersOnly(c, Msg("object:removed", Board, data))
       /\ \A c \in BoardConns :
            handleCanvasClear(c)
            => OthersOnly(c, Msg("canvas:clear", Board, NoPayload))]_vars

\* Three clients are connected; client 2 has modified an object that was in
\* the store, and clients 1 and 3 were sent its payload, client 2 nothing.
C14_Witness ==
    /\ \A c \in BoardConns : conn[c] = "open"
    /\ \E data \in ModifyPayloads :
          /\ HasOwn(objects, data.id)
          /\ "id" \in DOMAIN OwnValue(objects, data.id)
          /\ Len(eventLogs) > 0
          /\ eventLogs[Len(eventLogs)] =
                [event |-> "object:modified", timestamp |-> dateToUser(clock - 400),
                 payload |-> data]
          /\ Last(sent, 1) = Msg("object:modified", Board, data)
          /\ Last(sent, 3) = Msg("object:modified", Board, data)
          /\ Last(sent, 2).type = "object:sync"

\* The smaller of two numbers.
Min(a, b) == IF a < b THEN a ELSE b

\* C15: after n log calls the event log holds the most recent min(n, 100)
\* logged events, oldest first and the newest last, so never more than 100.
C15_RecentHundred ==
    /\ Len(eventLogs) <= 100
    /\ Len(eventLogs) = Min(nEvents, 100)
    /\ \A i \in 1..Len(eventLogs) :
          eventLogs[i].payload = [n |-> nEvents - Len(eventLogs) + i]

\* 102 events were logged: the log holds the 100 from the third to the last.
C15_Witness ==
    /\ nEvents = 102
    /\ Len(eventLogs) = 100
    /\ eventLogs[1].payload = [n |-> 3]
    /\ eventLogs[100].payload = [n |-> 102]

\* Connection c is sent the one message m and no other connection anything.
OnlyTo(c, m) ==
    \A d \in AllConns : NewFor(d) = IF d = c THEN << m >> ELSE << >>

\* The objects added and not since removed or cleared, with their merged props.
Surviving == { Replay(eventLogs)[k] : k \in DOMAIN Replay(eventLogs) }

\* C16: a newly connected client receives, to itself only, one object:sync
\* whose objects are exactly the objects added and not since removed or
\* cleared, with their merged props; connecting does not change the store.
C16_SyncOnConnect ==
    [][\A c \in BoardConns :
          handleConnection(c)
          => /\ objects' = objects
             /\ Len(NewFor(c)) = 1
             /\ OnlyTo(c, Last(sent', c))
             /\ Last(sent', c).type = "object:sync"
             /\ LET synced == Last(sent', c).data.objects IN
                  /\ { synced[i] : i \in 1..Len(synced) } = Surviving
                  /\ Len(synced) = Cardinality(Surviving)]_vars

\* The object:sync of a connection carries the entries of the store as they
\* are, and the store is unchanged.
C16_SyncIsStore ==
    [][\A c \in BoardConns :
          handleConnection(c)
          => /\ objects' = objects
             /\ OnlyTo(c, Msg("object:sync", Board,
                              [objects |-> [i \in 1..Len(objects) |-> objects[i].value]]))]_vars

\* C17: create_room registers a room under an id no active room has, with
\* the creator as its sole participant, an empty canvasState, cursor unknown
\* and isDrawing false; every room that existed is unchanged, and the only
\* message sent is room_created to the creator.
C17_CreateRoom ==
    [][\A c \in Conns, username \in Names, r \in RoomIds, now \in Times :
          CreateRoom(c, username, r, now)
          => /\ ~HasRoom(rooms, r)
             /\ HasRoom(rooms', r)
             /\ Len(rooms') = Len(rooms) + 1
             /\ LET room == GetRoom(rooms', r) IN
                  /\ Len(room.users) = 1
                  /\ room.users[1].id = c
                  /\ room.users[1].name = username
                  /\ room.users[1].cursor = NoCursor
                  /\ room.users[1].isDrawing = FALSE
                  /\ room.canvasState = << >>
             /\ \A i \in 1..Len(rooms) :
                  /\ HasRoom(rooms', rooms[i].id)
                  /\ GetRoom(rooms', rooms[i].id) = rooms[i]
             /\ Len(NewFor(c)) = 1
             /\ OnlyTo(c, Last(sent', c))
             /\ Last(sent', c).type = "room_created"
             /\ Last(sent', c).room = r]_vars

\* A second room was created while the first, which holds a canvas, exists.
C17_Witness ==
    /\ Len(rooms) = 2
    /\ rooms[1].canvasState # << >>
    /\ \E c \in Conns :
          /\ UserIds(rooms[2]) = {c}
          /\ Len(sent[c]) > 0
          /\ Last(sent, c).type = "room_created"
          /\ Last(sent, c).room = rooms[2].id

\* The colors the participants of a room hold.
HeldColors(room) == { room.users[i].color : i \in 1..Len(room.users) }

\* The first palette entry outside held, the first entry when there is none.
FirstUnheld(held) ==
    IF \A k \in 1..8 : userColors[k] \in held
    THEN userColors[1]
    ELSE userColors[CHOOSE k \in 1..8 :
                       /\ userColors[k] \notin held
                       /\ \A j \in 1..(k - 1) : userColors[j] \in held]

\* Connection c has just been told that it joined room r.
Admitted(c, r) ==
    /\ Len(NewFor(c)) = 1
    /\ Last(sent', c).type = "room_joined"
    /\ Last(sent', c).room = r

\* C18: the color create_room or join_room gives a participant is the first
\* palette entry no current participant of the room holds at that moment,
\* and the first palette entry when all 8 are held.
C18_FirstFreeColor ==
    [][\A c \in AllConns, r \in RoomIds, username \in Names :
          /\ \A now \in Times :
                CreateRoom(c, username, r, now)
                => GetUser(GetRoom(rooms', r), c).color = FirstUnheld({})
          /\ (JoinRoom(c, r, username) /\ Admitted(c, r))
                => GetUser(GetRoom(rooms', r), c).color
                     = FirstUnheld(HeldColors(GetRoom(rooms, r)))]_vars

\* A room took its users one by one: the first eight hold the palette in
\* order, the ninth the first entry; and a later user took a freed color.
C18_Witness ==
    \E i \in 1..Len(rooms) :
        LET users == rooms[i].users IN
        /\ Len(users) = 9
        /\ users[1].color = userColors[1]
        /\ users[8].color = userColors[1]
        /\ users[9].name = "bob"
        /\ \E k \in 2..8 :
              /\ users[9].color = userColors[k]
              /\ \A j \in 1..8 : users[j].color # userColors[k]

\* C19 as stated: the participants of a room that has at most 8 participants
\* hold pairwise distinct colors.
C19_DistinctUpToEight ==
    \A i \in 1..Len(rooms) :
        Len(rooms[i].users) <= 8
        => \A j, k \in 1..Len(rooms[i].users) :
              j # k => rooms[i].users[j].color # rooms[i].users[k].color

\* C19: two distinct participants of a room hold the same color only if that
\* color is the first palette entry.
C19_OnlyFirstShared ==
    \A i \in 1..Len(rooms) :
        \A j, k \in 1..Len(rooms[i].users) :
            (j # k /\ rooms[i].users[j].color = rooms[i].users[k].color)
            => rooms[i].users[j].color = userColors[1]

\* A room of 8 participants, two of which hold the first palette entry.
C19_Witness ==
    \E i \in 1..Len(rooms) :
        /\ Len(rooms[i].users) = 8
        /\ \E j, k \in 1..8 :
              /\ j # k
              /\ rooms[i].users[j].color = userColors[1]
              /\ rooms[i].users[k].color = userColors[1]

\* The step removes participant c from room r.
Removes(c, r) ==
    /\ HasRoom(rooms, r)
    /\ HasUser(GetRoom(rooms, r), c)
    /\ ~(HasRoom(rooms', r) /\ HasUser(GetRoom(rooms', r), c))

\* What C20 says of a disconnect of c that removes it from room r, the
\* participants that must be notified being remaining(room).
LeaveSends(c, r, remaining(_)) ==
    LET room == GetRoom(rooms, r)
        left == Msg("user_left", r, [userId |-> c, name |-> GetUser(room, c).name])
    IN  IF Len(room.users) > 1
        THEN /\ HasRoom(rooms', r)
             /\ GetRoom(rooms', r).canvasState = room.canvasState
             /\ UserIds(GetRoom(rooms', r)) = UserIds(room) \ {c}
             /\ \A d \in UserIds(room) \ {c} :
                  GetUser(GetRoom(rooms', r), d) = GetUser(room, d)
             /\ \A d \in remaining(room) \ {c} : NewFor(d) = << left >>
        ELSE /\ ~HasRoom(rooms', r)
             /\ sent' = sent

\* C20: when disconnect removes a participant from a room that still has
\* other participants, each remaining participant receives exactly one
\* user_left with the departed connection's id and name, and the canvasState
\* and the other participants' records are unchanged; when the removal
\* empties the room, the room is destroyed and no user_left is sent.
C20_LeaveNotice ==
    [][\A c \in Conns, r \in RoomIds :
          (Disconnect(c) /\ Removes(c, r)) => LeaveSends(c, r, UserIds)]_vars

\* The same, for the remaining participants whose connection is open.
C20_AmongConnected ==
    [][\A c \in Conns, r \in RoomIds :
          (Disconnect(c) /\ Removes(c, r)) => LeaveSends(c, r, Connected)]_vars

\* What C21 says of a cursor_move of c naming room r with position point, the
\* participants that must be sent cursor_updated being recipients(room).
CursorSends(c, r, point, recipients(_)) ==
    IF ~HasRoom(rooms, r) \/ ~HasUser(GetRoom(rooms, r), c)
    THEN rooms' = rooms /\ sent' = sent
    ELSE LET room == GetRoom(rooms, r)
             user == GetUser(room, c)
             moved == [j \in 1..Len(room.users) |->
                          IF room.users[j].id = c
                          THEN [room.users[j] EXCEPT !.cursor = point]
                          ELSE room.users[j]]
             m == Msg("cursor_updated", r,
                      [userId |-> c, cursor |-> point, color |-> user.color,
                       name |-> user.name, isDrawing |-> user.isDrawing])
         IN  /\ Len(rooms') = Len(rooms)
             /\ \A i \in 1..Len(rooms) :
                  rooms'[i] = IF rooms[i].id = r
                              THEN [rooms[i] EXCEPT !.users = moved]
                              ELSE rooms[i]
             /\ \A d \in AllConns :
                  NewFor(d) = IF d \in recipients(room) \ {c} THEN << m >> ELSE << >>

\* C21: cursor_move from c naming room R changes nothing and sends nothing
\* when R does not exist or c is not a participant of R; otherwise it
\* overwrites only c's cursor in R and sends cursor_updated with c's id, new
\* position, color, name and isDrawing flag to every other participant of R
\* and not to c.
C21_CursorMove ==
    [][\A c \in Conns, r \in RoomIds, point \in Points :
          CursorMove(c, r, point) => CursorSends(c, r, point, UserIds)]_vars

\* The same, with cursor_updated sent to the other participants whose
\* connection is open.
C21_AmongConnected ==
    [][\A c \in Conns, r \in RoomIds, point \in Points :
          CursorMove(c, r, point) => CursorSends(c, r, point, Connected)]_vars

\* Connection c is a participant of room r in the registry rs.
IsIn(rs, c, r) == HasRoom(rs, r) /\ HasUser(GetRoom(rs, r), c)

\* The isDrawing flag of participant c of room r in the registry rs.
Flag(rs, c, r) == GetUser(GetRoom(rs, r), c).isDrawing

C23_RequestSync ==
    [][\A c \in Conns, r \in RoomIds :
          RequestSync(c, r)
          => /\ rooms' = rooms
             /\ IF HasRoom(rooms, r)
                THEN /\ Len(NewFor(c)) = 1
                     /\ OnlyTo(c, Last(sent', c))
                     /\ Last(sent', c).type = "sync_response"
                     /\ Last(sent', c).data.canvasState = GetRoom(rooms, r).canvasState
                     /\ Last(sent', c).data.timestamp = GetRoom(rooms, r).lastUpdate
                     /\ Last(sent', c).data.users = GetRoom(rooms, r).users
                ELSE sent' = sent]_vars

\* A connection that is no participant of a room holding a canvas was sent
\* the sync_response of that room.
C23_Witness ==
    \E c \in Conns, r \in RoomIds :
        /\ HasRoom(rooms, r)
        /\ ~HasUser(GetRoom(rooms, r), c)
        /\ GetRoom(rooms, r).canvasState # << >>
        /\ Len(sent[c]) > 0
        /\ Last(sent, c).type = "sync_response"
        /\ Last(sent, c).room = r
        /\ Last(sent, c).data.canvasState = GetRoom(rooms, r).canvasState
        /\ Last(sent, c).data.users = GetRoom(rooms, r).users

\* A step of connection c that names room r leaves every other room as it
\* was, and what it sends to connections other than c goes to participants of
\* r and originates from r.
Isolated(c, r) ==
    /\ \A q \in RoomIds \ {r} :
          /\ HasRoom(rooms', q) = HasRoom(rooms, q)
          /\ HasRoom(rooms, q) => GetRoom(rooms', q) = GetRoom(rooms, q)
    /\ \A d \in AllConns \ {c} :
          NewFor(d) # << >>
          => /\ IsIn(rooms, d, r)
             /\ \A i \in 1..Len(NewFor(d)) : NewFor(d)[i].room = r

\* C24: an event that names room R (join_room, canvas_update, cursor_move,
\* drawing_start, drawing_end, request_sync) leaves the participants,
\* canvasState and lastUpdate of every other room unchanged, and the
\* broadcast it causes is delivered only to participants of R.
C24_RoomsIsolated ==
    [][\A c \in Conns, r \in RoomIds :
          /\ (\E username \in Names : JoinRoom(c, r, username)) => Isolated(c, r)
          /\ (\E e \in ElementLists, t \in Times : CanvasUpdate(c, r, e, t))
                => Isolated(c, r)
          /\ (\E point \in Points : CursorMove(c, r, point)) => Isolated(c, r)
          /\ DrawingStart(c, r) => Isolated(c, r)
          /\ DrawingEnd(c, r) => Isolated(c, r)
          /\ RequestSync(c, r) => Isolated(c, r)]_vars

\* Two rooms with one participant each, a and b; an event of a third
\* connection that named a's room was broadcast to a and not to b.
C24_Witness ==
    /\ Len(rooms) = 2
    /\ \E a \in Conns, b \in Conns :
          /\ a # b
          /\ HasUser(rooms[1], a) /\ ~HasUser(rooms[2], a)
          /\ HasUser(rooms[2], b) /\ ~HasUser(rooms[1], b)
          /\ Len(sent[a]) = 2
          /\ Last(sent, a).type \in LiveTypes
          /\ Last(sent, a).room = rooms[1].id
          /\ Len(sent[b]) = 1

\* C25: a canvas_update processed when the room already stores the same
\* elements and timestamp (the same payload was processed just before) leaves
\* canvasState and lastUpdate as they are; processed when the room stores the
\* same elements under another timestamp, it leaves canvasState as it is and
\* changes lastUpdate only.
C25_Idempotent ==
    [][\A c \in Conns, r \in RoomIds, e \in ElementLists, t \in Times :
          (/\ HasRoom(rooms, r)
           /\ GetRoom(rooms, r).canvasState = e
           /\ CanvasUpdate(c, r, e, t))
          => /\ HasRoom(rooms', r)
             /\ GetRoom(rooms', r).canvasState = GetRoom(rooms, r).canvasState
             /\ GetRoom(rooms', r).lastUpdate = t
             /\ GetRoom(rooms, r).lastUpdate = t
                  => GetRoom(rooms', r) = GetRoom(rooms, r)
             /\ GetRoom(rooms, r).lastUpdate # t
                  => GetRoom(rooms', r) = [GetRoom(rooms, r) EXCEPT !.lastUpdate = t]]_vars

\* The same canvas_update was processed twice in a row: the participant of
\* the room was sent it twice, and the room stores its elements and timestamp.
C25_Witness ==
    \E d \in Conns, r \in RoomIds :
        /\ IsIn(rooms, d, r)
        /\ Len(sent[d]) = 3
        /\ sent[d][2].type = "canvas_updated"
        /\ sent[d][2].room = r
        /\ sent[d][3] = sent[d][2]
        /\ GetRoom(rooms, r).canvasState = sent[d][3].data.elements
        /\ GetRoom(rooms, r).lastUpdate = sent[d][3].data.timestamp

\* The entry of the store under key carries that key as its id.
IdIsKey(os, key) ==
    /\ "id" \in DOMAIN OwnValue(os, key)
    /\ OwnValue(os, key).id = key

\* A step that modifies the entry under key changes nothing of it but props.
OnlyPropsChange(key) ==
    /\ HasOwn(objects', key)
    /\ DOMAIN OwnValue(objects', key) = DOMAIN OwnValue(objects, key)
    /\ \A f \in DOMAIN OwnValue(objects, key) \ {"props"} :
          OwnValue(objects', key)[f] = OwnValue(objects, key)[f]

\* C26: in every reachable state each entry stored under key k has id equal
\* to k, and object:modified changes only the props of the stored object,
\* never its id or its other top-level fields, whatever the payload carries.
C26_IdentityImmutable ==
    /\ [](\A i \in 1..Len(objects) : IdIsKey(objects, objects[i].key))
    /\ [][\A c \in BoardConns, data \in ModifyPayloads :
            (HasOwn(objects, data.id) /\ handleObjectModified(c, data))
            => OnlyPropsChange(data.id)]_vars

\* The same, with the id required of the entries whose key names no
\* inherited property of the store.
C26_OrdinaryIds ==
    /\ [](\A i \in 1..Len(objects) :
            objects[i].key \notin InheritedKeys => IdIsKey(objects, objects[i].key))
    /\ [][\A c \in BoardConns, data \in ModifyPayloads :
            (HasOwn(objects, data.id) /\ handleObjectModified(c, data))
            => OnlyPropsChange(data.id)]_vars

====
